---- MODULE Spec2Model ----
(***************************************************************************)
(* Order handling and the portfolio / position ledger of the trading API   *)
(* (api/app/routers/trading.py), with the portfolio and risk routers       *)
(* (routers/portfolio.py, routers/risk.py), as a state machine over the    *)
(* committed database rows and the request handlers in flight.             *)
(*                                                                         *)
(* Every handler is cut at its awaits on the database: a step is the code  *)
(* between two awaits.  A handler works on the objects of its own session: *)
(* what it read stays as it read it (expire_on_commit=False) and what it   *)
(* changed reaches the rows when it commits, as UPDATEs of the changed      *)
(* attributes.  A handler that raises is rolled back by get_db.            *)
(*                                                                         *)
(* Numbers.  Decimal columns are integers in their least unit:             *)
(*   quantities     1/QtyPerAsset of an asset (DECIMAL(20,8) columns),     *)
(*   prices         whole EUR per asset       (DECIMAL(15,8) columns),     *)
(*   amounts        cents                     (DECIMAL(15,2) columns).     *)
(* Python computes in exact Decimal: an intermediate amount is a numerator *)
(* over MoneyDen (unit: 1/MoneyDen cent) and is rounded when it is stored. *)
(* A price or a quantity that is None is 0 (the request models demand      *)
(* gt=0, and the code tests them with "or" / "not").                       *)
(***************************************************************************)
EXTENDS Integers, Sequences, FiniteSets, Bags, TLC

\* ---- bounds of the model
MaxOrders == 2
MaxReq == 2
MaxDay == 1
MaxRetries == 1
MaxFills == 3
MaxAlerts == 1
InitialBalance == 2000

\* ---- program constants and column scales
\* MAX_DAILY_TRADES is a setting (50 unless the environment sets it); the
\* model runs with a limit of 2.  The fee rate 0.0015 is FeeRateNum/FeeRateDen.
MockPrice == 45000
MinTradeAmount == 10
MaxDailyTrades == 2
FeeRateNum == 3
FeeRateDen == 2000
QtyPerAsset == 5000
CentsPerEur == 100

MoneyDen == (FeeRateDen * QtyPerAsset) \div CentsPerEur

\* ---- request inputs
QuickTradeInputs ==
    { [quantity |-> 1, amount_eur |-> 0],
      [quantity |-> 2, amount_eur |-> 0],
      [quantity |-> 0, amount_eur |-> 10],
      [quantity |-> 0, amount_eur |-> 0] }

OrderTypeInputs == {"buy", "sell", "limit"}

OrderCreateInputs ==
    { [quantity |-> 0, price |-> 0],
      [quantity |-> 1, price |-> 0],
      [quantity |-> 2, price |-> 0],
      [quantity |-> 2, price |-> 40001] }

OrderUpdateInputs ==
    { [price |-> 40001, stop_price |-> 44000, quantity |-> 0],
      [price |-> 0, stop_price |-> 0, quantity |-> 2] }

\* Further update_order payloads, for the runs that take them.
OrderCutInputs == { [price |-> 0, stop_price |-> 0, quantity |-> 1] }

\* update_portfolio payloads: the new name, None as "".
PortfolioUpdateInputs == {"", "spare"}

VARIABLES
    portfolio,      \* the portfolio row
    orders,         \* the order rows, in order of insertion (id = index)
    positions,      \* the position rows of the portfolio's asset (id = index)
    req,            \* the request handlers in flight (a bag of records)
    today,          \* the calendar day
    paper_mode,     \* settings.PAPER_TRADING_MODE
    last,           \* history: the result of the handler that returned last
    retries,        \* history: executions applied a second time (SpecRetry)
    alerts          \* the risk_alerts rows of the portfolio (id = index)

vars == <<portfolio, orders, positions, req, today, paper_mode,
          last, retries, alerts>>

\* ---- arithmetic

\* n/d rounded to an integer, ties away from zero (numeric columns).
RoundHA(n, d) ==
    IF n >= 0 THEN (2 * n + d) \div (2 * d)
    ELSE -((2 * (-n) + d) \div (2 * d))

\* An amount computed in Python as it is stored in a DECIMAL(15,2) column.
RoundMoney(num) == RoundHA(num, MoneyDen)

\* quantity * price, in 1/MoneyDen cents.
Notional(q, p) == q * p * FeeRateDen

Abs(x) == IF x < 0 THEN -x ELSE x

\* ---- rows

Handler ==
    [ op |-> "none", pc |-> "start", oid |-> 0, side |-> "none",
      qty |-> 0, price |-> 0, stop |-> 0, bal |-> 0, tpl |-> 0,
      eq |-> 0, ep |-> 0, lprice |-> 0, lstop |-> 0, lqty |-> 0,
      pid |-> 0, pqty |-> 0, pavg |-> 0, prpnl |-> 0 ]

\* The fields of a handler: op, the handler; pc, where it stands; side, oid, qty,
\* price, stop, what the request gave and the order it works on; bal, tpl, the
\* portfolio as the session read it; eq, ep, the execution result; lprice,
\* lstop, lqty, the order as update_order read it; pid, pqty, pavg, prpnl, the
\* open position as update_position_from_order read it.


\* An order row as it is inserted.  Five fields are history: order_value, the
\* order's notional value at the reference price when it was created; applied,
\* how often its fill has been applied to the ledger; position, the position
\* row that fill went to; basis, the average price that position had then;
\* task, the background task of the order ("none", "scheduled", "done").
ExecutedOrder(otype, q, p, sp, value) ==
    [ order_type |-> otype, quantity |-> q, price |-> p, stop_price |-> sp,
      status |-> "executed", executed_quantity |-> q, executed_price |-> p,
      fee_amount |-> 0, cancelled_at |-> FALSE, created_day |-> today,
      order_value |-> value, applied |-> 0, position |-> 0, basis |-> 0,
      task |-> "none" ]
NewOrder(otype, q, p, sp, value) ==
    [ order_type |-> otype, quantity |-> q, price |-> p, stop_price |-> sp,
      status |-> "pending", executed_quantity |-> 0, executed_price |-> 0,
      fee_amount |-> 0, cancelled_at |-> FALSE, created_day |-> today,
      order_value |-> value, applied |-> 0, position |-> 0, basis |-> 0,
      task |-> "none" ]

NewPosition(q, p) ==
    [ quantity |-> q, avg_buy_price |-> p, current_price |-> p,
      realized_pnl |-> 0, unrealized_pnl |-> 0, status |-> "open",
      closed_at |-> FALSE ]

OpenPositions == {i \in 1..Len(positions) : positions[i].status = "open"}

\* The handlers in flight that are at one of the places pcs of handler op.
At(op, pcs) == {r \in BagToSet(req) : r.op = op /\ r.pc \in pcs}

\* Orders that handlers in flight are still going to insert.
Reserved ==
    LET inserting == At("quick_trade", {"validated"})
                         \cup At("create_order", {"validated", "counted"})
    IN  BagCardinality([r \in inserting |-> req[r]])

\* A request for a new order is let in while fewer than max orders exist.
Room(max) == Len(orders) + Reserved < max

\* The server takes a new request while fewer than MaxReq are in flight.
Free == BagCardinality(req) < MaxReq

\* The ledger after create_portfolio, with no request in flight.
StartLedger ==
    /\ portfolio = [ current_balance |-> InitialBalance, total_invested |-> 0,
                     total_profit_loss |-> 0, name |-> "main",
                     deleted |-> FALSE ]
    /\ orders = << >>
    /\ positions = << >>
    /\ req = EmptyBag
    /\ today = 0
    /\ paper_mode \in BOOLEAN
    /\ last = "none"
    /\ retries = 0

Init == StartLedger /\ alerts = << >>

\* The clock passes midnight.
Tick ==
    /\ today < MaxDay
    /\ today' = today + 1
    /\ UNCHANGED <<portfolio, orders, positions, req, paper_mode,
                   last, retries, alerts>>

\* ---- the execution engine and the ledger

\* simulate_order_execution: the fill of an order, or the 501 of live mode.
simulate_order_execution(order) ==
    LET execution_price == IF order.price # 0 THEN order.price ELSE MockPrice
    IN  [ ok |-> paper_mode,
          status |-> "executed",
          executed_quantity |-> order.quantity,
          executed_price |-> execution_price,
          fee_amount |-> order.quantity * execution_price * FeeRateNum ]

\* The average price of a position after a buy (weighted average), as stored.
NaiveAvg(pqty, pavg, eq, ep) == RoundHA(pavg + ep, 2)
BuyAvg(pqty, pavg, eq, ep) == RoundHA(pqty * pavg + eq * ep, pqty + eq)

\* The guard before a sell is applied.
WeakPositionCheck(pid, pqty, eq) == pid = 0
InsufficientPosition(pid, pqty, eq) == pid = 0 \/ pqty < eq

\* update_position_from_order, up to its first read: the open position of
\* the order's asset and what the code finds wrong with it.
position_select(side, eq) ==
    LET pid == IF OpenPositions = {} THEN 0 ELSE CHOOSE i \in OpenPositions : TRUE
        pqty == IF pid = 0 THEN 0 ELSE positions[pid].quantity
    IN  [ err |-> IF Cardinality(OpenPositions) > 1 THEN "ServerError"
                  ELSE IF side = "buy" /\ pid # 0 /\ pqty + eq = 0
                       THEN "ServerError"
                  ELSE IF side = "sell" /\ InsufficientPosition(pid, pqty, eq)
                       THEN "InsufficientPosition"
                  ELSE "none",
          pid |-> pid,
          pqty |-> pqty,
          pavg |-> IF pid = 0 THEN 0 ELSE positions[pid].avg_buy_price,
          prpnl |-> IF pid = 0 THEN 0 ELSE positions[pid].realized_pnl ]

\* The realized profit of a sell fill, in 1/MoneyDen cents.
RealizedPnl(eq, ep, fee, pavg) == Notional(eq, ep) - Notional(eq, pavg) - fee

\* update_position_from_order, from the position it read (pid, 0: none, with
\* pqty, pavg, prpnl as read) and the portfolio as its session holds it (bal,
\* tpl): the position and portfolio rows once its changes are written.
update_position_from_order(side, eq, ep, fee, pid, pqty, pavg, prpnl, bal, tpl) ==
    IF side = "buy" THEN
        [ positions |->
            IF pid = 0 THEN Append(positions, NewPosition(eq, ep))
            ELSE [positions EXCEPT ![pid] =
                    [@ EXCEPT !.avg_buy_price =
                                  IF eq * ep # eq * pavg
                                  THEN BuyAvg(pqty, pavg, eq, ep) ELSE @,
                              !.quantity = IF eq # 0 THEN pqty + eq ELSE @]],
          portfolio |->
            [portfolio EXCEPT !.current_balance =
                IF Notional(eq, ep) + fee # 0
                THEN RoundMoney(bal * MoneyDen - (Notional(eq, ep) + fee))
                ELSE @],
          touched |-> IF pid = 0 THEN Len(positions) + 1 ELSE pid ]
    ELSE
        LET realized_pnl == RealizedPnl(eq, ep, fee, pavg)
        IN  [ positions |->
                [positions EXCEPT ![pid] =
                    [@ EXCEPT !.quantity = IF eq # 0 THEN pqty - eq ELSE @,
                              !.realized_pnl =
                                  IF realized_pnl # 0
                                  THEN RoundMoney(prpnl * MoneyDen + realized_pnl)
                                  ELSE @,
                              !.status = IF pqty - eq = 0 THEN "closed" ELSE @,
                              !.closed_at = IF pqty - eq = 0 THEN TRUE ELSE @]],
              portfolio |->
                [portfolio EXCEPT
                    !.current_balance =
                        IF Notional(eq, ep) - fee # 0
                        THEN RoundMoney(bal * MoneyDen + Notional(eq, ep) - fee)
                        ELSE @,
                    !.total_profit_loss =
                        IF realized_pnl # 0
                        THEN RoundMoney(tpl * MoneyDen + realized_pnl)
                        ELSE @],
              touched |-> pid ]

\* The CHECK constraints of the positions table.  The table made by the
\* migration has them, the table init_db makes from the models has not: a row
\* that breaks one is refused or stored, whichever schema is there.  (The
\* CHECK on orders.quantity never matters here: the request inputs of this
\* model all give an order a quantity of one unit or more.)
PositionRowOk(p) == p.quantity > 0 /\ p.avg_buy_price > 0

\* ---- the steps of a handler

\* get_user_portfolio: the portfolio is found when the row is there and the
\* user of the request owns it.
AnyUsersPortfolio(owned) == ~portfolio.deleted
get_user_portfolio(owned) == owned /\ ~portfolio.deleted

\* A request is taken and its handler stands at r.
Begin(r) ==
    /\ req' = req (+) SetToBag({r})
    /\ last' = last

\* A request is answered with the error res by the first step of its handler.
Reject(res) ==
    /\ req' = req
    /\ last' = res

\* The handler r goes on as r2.
Continue(r, r2) ==
    /\ req' = (req (-) SetToBag({r})) (+) SetToBag({r2})
    /\ last' = last

\* The handler r returns res ("ok" or the error); what its session did not
\* commit is lost.
Return(r, res) ==
    /\ req' = req (-) SetToBag({r})
    /\ last' = res

\* The handler r writes, or reads back, a row of a portfolio that has been
\* deleted with its orders and positions: the statement fails (foreign key,
\* no row to refresh or to update) and get_db rolls the session back.
RowsGone(r) ==
    /\ Return(r, "ServerError")
    /\ UNCHANGED <<portfolio, orders, positions>>

\* ---- quick_trade

\* quick_trade up to the order it builds: the portfolio and the asset are
\* looked up, the quantity is worked out.
QtStart(side, in, owned, tradeable) ==
    /\ Free
    /\ LET r == [Handler EXCEPT !.op = "quick_trade", !.side = side]
           q == IF in.quantity # 0 THEN in.quantity
                ELSE RoundHA(in.amount_eur * QtyPerAsset, MockPrice)
       IN  IF ~get_user_portfolio(owned) THEN Reject("NotFound")
           ELSE IF ~tradeable THEN Reject("AssetNotFound")
           ELSE IF in.quantity = 0 /\ in.amount_eur = 0
                THEN Reject("ValidationError")
           ELSE Begin([r EXCEPT !.pc = "validated", !.qty = q,
                                      !.bal = portfolio.current_balance,
                                      !.tpl = portfolio.total_profit_loss])
    /\ UNCHANGED <<portfolio, orders, positions, today, paper_mode,
                   retries, alerts>>

\* The pending order is inserted and committed.
QtInsert(r) ==
    LET o == NewOrder(r.side, r.qty, 0, 0, Notional(r.qty, MockPrice))
    IN  /\ r.op = "quick_trade" /\ r.pc = "validated"
        /\ IF portfolio.deleted THEN RowsGone(r)
           ELSE /\ orders' = Append(orders, o)
                /\ Continue(r, [r EXCEPT !.pc = "inserted",
                                          !.oid = Len(orders) + 1])
                /\ UNCHANGED <<portfolio, positions>>
        /\ UNCHANGED <<today, paper_mode, retries, alerts>>

\* The order is read back (refresh) and executed by the simulator.
QtRefresh(r) ==
    LET er == simulate_order_execution(orders[r.oid])
    IN  /\ r.op = "quick_trade" /\ r.pc = "inserted"
        /\ IF portfolio.deleted THEN Return(r, "ServerError")
           ELSE IF ~er.ok THEN Return(r, "ExecutionFailure")
           ELSE Continue(r, [r EXCEPT !.pc = "executed",
                                      !.eq = er.executed_quantity,
                                      !.ep = er.executed_price])
        /\ UNCHANGED <<portfolio, orders, positions, today, paper_mode, retries, alerts>>

\* update_position_from_order reads the open position.
QtSelect(r) ==
    LET sel == position_select(r.side, r.eq)
    IN  /\ r.op = "quick_trade" /\ r.pc = "executed"
        /\ IF sel.err # "none" THEN Return(r, sel.err)
           ELSE Continue(r, [r EXCEPT !.pc = "selected", !.pid = sel.pid,
                                      !.pqty = sel.pqty, !.pavg = sel.pavg,
                                      !.prpnl = sel.prpnl])
        /\ UNCHANGED <<portfolio, orders, positions, today, paper_mode, retries, alerts>>

\* The order, the position and the portfolio are written and committed.
QtCommit(r) ==
    LET fee == r.eq * r.ep * FeeRateNum
        w == update_position_from_order(r.side, r.eq, r.ep, fee, r.pid, r.pqty,
                                        r.pavg, r.prpnl, r.bal, r.tpl)
    IN  /\ r.op = "quick_trade" /\ r.pc = "selected"
        /\ \/ /\ portfolio.deleted
              /\ RowsGone(r)
           \/ /\ ~portfolio.deleted
              /\ orders' = [orders EXCEPT ![r.oid] =
                      [@ EXCEPT !.status = "executed",
                                !.executed_quantity = r.eq,
                                !.executed_price = r.ep,
                                !.fee_amount = fee,
                                !.applied = @ + 1,
                                !.position = w.touched,
                                !.basis = r.pavg]]
              /\ positions' = w.positions
              /\ portfolio' = w.portfolio
              /\ Return(r, "ok")
           \/ /\ ~portfolio.deleted
              /\ ~PositionRowOk(w.positions[w.touched])
              /\ Return(r, "ServerError")
              /\ UNCHANGED <<orders, positions, portfolio>>
        /\ UNCHANGED <<today, paper_mode, retries, alerts>>

\* ---- create_order

\* validate_order_limits, with the number of orders it counted.
validate_order_limits(order_value, balance, daily_trades) ==
    IF order_value < MinTradeAmount * CentsPerEur * MoneyDen THEN "BelowMinimumTrade"
    ELSE IF daily_trades >= MaxDailyTrades THEN "DailyLimitExceeded"
    ELSE IF order_value > balance * MoneyDen THEN "InsufficientBalance"
    ELSE "none"

DailyTrades == Cardinality({i \in 1..Len(orders) : orders[i].created_day = today})

\* The order types that need a price.
NoPriceRequired(otype) == FALSE
PriceRequired(otype) == otype \in {"limit", "stop_loss", "take_profit"}

\* create_order up to validate_order_limits: the request model (quantity
\* gt=0), portfolio, asset and the price a limit or stop order needs.
CoStart(otype, in, owned, tradeable) ==
    /\ Free
    /\ LET r == [Handler EXCEPT !.op = "create_order", !.side = otype]
       IN  IF in.quantity <= 0 THEN Reject("ValidationError")
           ELSE IF ~get_user_portfolio(owned) THEN Reject("NotFound")
           ELSE IF ~tradeable THEN Reject("AssetNotFound")
           ELSE IF PriceRequired(otype) /\ in.price = 0
                THEN Reject("MissingPrice")
           ELSE Begin([r EXCEPT !.pc = "validated", !.qty = in.quantity,
                                      !.price = in.price,
                                      !.bal = portfolio.current_balance])
    /\ UNCHANGED <<portfolio, orders, positions, today, paper_mode,
                   retries, alerts>>

\* The order's value at the estimated price, in 1/MoneyDen cents.
OrderValue(q, price) == Notional(q, IF price # 0 THEN price ELSE MockPrice)

\* validate_order_limits: the day's orders are counted and the limits checked.
CoValidate(r) ==
    LET err == validate_order_limits(OrderValue(r.qty, r.price), r.bal, DailyTrades)
    IN  /\ r.op = "create_order" /\ r.pc = "validated"
        /\ IF err # "none" THEN Return(r, err)
           ELSE Continue(r, [r EXCEPT !.pc = "counted"])
        /\ UNCHANGED <<portfolio, orders, positions, today, paper_mode, retries, alerts>>

\* The order types create_order schedules a background execution for.
Backgrounded(otype) == otype \in {"market", "buy", "sell"}

\* The pending order is inserted and committed, and execute_order_async is
\* scheduled for it as a background task.
CoInsert(r) ==
        /\ r.op = "create_order" /\ r.pc = "counted"
        /\ IF portfolio.deleted THEN RowsGone(r)
           ELSE /\ orders' = Append(orders,
                        [NewOrder(r.side, r.qty, r.price, r.stop,
                                  OrderValue(r.qty, r.price))
                            EXCEPT !.task = IF Backgrounded(r.side)
                                            THEN "scheduled" ELSE "none"])
                /\ Return(r, "ok")
                /\ UNCHANGED <<portfolio, positions>>
        /\ UNCHANGED <<today, paper_mode, retries, alerts>>

\* execute_order_async, the background task of order oid, runs: its body
\* is "pass".
execute_order_async(oid) ==
    /\ oid <= Len(orders)
    /\ orders[oid].task = "scheduled"
    /\ orders' = [orders EXCEPT ![oid] = [@ EXCEPT !.task = "done"]]
    /\ UNCHANGED <<portfolio, positions, req, today, paper_mode, last,
                   retries, alerts>>

\* ---- cancel_order and update_order

\* The guard of update_order and cancel_order on the status they read.
AnyStatus(status) == TRUE
IsPending(status) == status = "pending"

\* What the handler finds when it looks the order up.
OrderLookup(oid, owned) ==
    IF ~owned \/ oid > Len(orders) THEN "NotFound"
    ELSE IF ~IsPending(orders[oid].status) THEN "InvalidState"
    ELSE "none"

\* cancel_order reads the order and checks its status.
CancelRead(oid, owned) ==
    /\ Free
    /\ LET r == [Handler EXCEPT !.op = "cancel_order", !.oid = oid]
           err == OrderLookup(oid, owned)
       IN  IF err # "none" THEN Reject(err)
           ELSE Begin([r EXCEPT !.pc = "read"])
    /\ UNCHANGED <<portfolio, orders, positions, today, paper_mode,
                   retries, alerts>>

\* cancel_order writes the status and cancelled_at and commits.
CancelCommit(r) ==
        /\ r.op = "cancel_order" /\ r.pc = "read"
        /\ IF portfolio.deleted THEN RowsGone(r)
           ELSE /\ orders' = [orders EXCEPT ![r.oid] =
                        [@ EXCEPT !.status = "cancelled", !.cancelled_at = TRUE]]
                /\ Return(r, "ok")
                /\ UNCHANGED <<portfolio, positions>>
        /\ UNCHANGED <<today, paper_mode, retries, alerts>>

\* update_order reads the order and checks its status.
UpdateRead(oid, in, owned) ==
    /\ Free
    /\ LET r == [Handler EXCEPT !.op = "update_order", !.oid = oid]
           err == OrderLookup(oid, owned)
       IN  IF err # "none" THEN Reject(err)
           ELSE Begin([r EXCEPT !.pc = "read",
                                      !.price = in.price, !.stop = in.stop_price,
                                      !.qty = in.quantity,
                                      !.lprice = orders[oid].price,
                                      !.lstop = orders[oid].stop_price,
                                      !.lqty = orders[oid].quantity])
    /\ UNCHANGED <<portfolio, orders, positions, today, paper_mode,
                   retries, alerts>>

\* update_order writes the fields the request gave and commits.
UpdateCommit(r) ==
        /\ r.op = "update_order" /\ r.pc = "read"
        /\ \/ /\ portfolio.deleted
              /\ RowsGone(r)
           \/ /\ ~portfolio.deleted
              /\ orders' = [orders EXCEPT ![r.oid] =
                [@ EXCEPT !.price = IF r.price # 0 /\ r.price # r.lprice
                                    THEN r.price ELSE @,
                          !.stop_price = IF r.stop # 0 /\ r.stop # r.lstop
                                         THEN r.stop ELSE @,
                          !.quantity = IF r.qty # 0 /\ r.qty # r.lqty
                                       THEN r.qty ELSE @]]
              /\ Return(r, "ok")
              /\ UNCHANGED <<portfolio, positions>>
        /\ UNCHANGED <<today, paper_mode, retries, alerts>>

\* ---- the portfolio router: get, list positions, update, delete

PendingOrders == {i \in 1..Len(orders) : orders[i].status = "pending"}

\* get_portfolio and get_portfolio_positions: the portfolio is looked up and
\* rows are read; nothing is written.
ReadPortfolio(owned) ==
    /\ Free
    /\ IF ~get_user_portfolio(owned) THEN Reject("NotFound") ELSE Reject("ok")
    /\ UNCHANGED <<portfolio, orders, positions, today, paper_mode, retries, alerts>>

\* update_portfolio up to its commit: the lookup and the search for another
\* portfolio of the user with the new name (taken).
UpdatePortfolioStart(name, owned, taken) ==
    /\ Free
    /\ LET r == [Handler EXCEPT !.op = "update_portfolio", !.side = name]
       IN  IF ~get_user_portfolio(owned) THEN Reject("NotFound")
           ELSE IF name # "" /\ taken THEN Reject("NameTaken")
           ELSE Begin([r EXCEPT !.pc = "read"])
    /\ UNCHANGED <<portfolio, orders, positions, today, paper_mode, retries, alerts>>

\* update_portfolio commits the name, if the request gave another one.
UpdatePortfolioCommit(r) ==
    /\ r.op = "update_portfolio" /\ r.pc = "read"
    /\ IF r.side # "" /\ r.side # portfolio.name /\ portfolio.deleted
       THEN RowsGone(r)
       ELSE /\ portfolio' = [portfolio EXCEPT
                                !.name = IF r.side # "" THEN r.side ELSE @]
            /\ Continue(r, [r EXCEPT !.pc = "committed"])
            /\ UNCHANGED <<orders, positions>>
    /\ UNCHANGED <<today, paper_mode, retries, alerts>>

\* update_portfolio reads the row back (refresh) and answers.
UpdatePortfolioRefresh(r) ==
    /\ r.op = "update_portfolio" /\ r.pc = "committed"
    /\ Return(r, IF portfolio.deleted THEN "ServerError" ELSE "ok")
    /\ UNCHANGED <<portfolio, orders, positions, today, paper_mode, retries, alerts>>

\* delete_portfolio looks the portfolio up.
DeleteStart(owned) ==
    /\ Free
    /\ LET r == [Handler EXCEPT !.op = "delete_portfolio"]
       IN  IF ~get_user_portfolio(owned) THEN Reject("NotFound")
           ELSE Begin([r EXCEPT !.pc = "found"])
    /\ UNCHANGED <<portfolio, orders, positions, today, paper_mode, retries, alerts>>

\* delete_portfolio counts the open positions.
DeleteCountPositions(r) ==
    /\ r.op = "delete_portfolio" /\ r.pc = "found"
    /\ IF OpenPositions # {} THEN Return(r, "ActivePositions")
       ELSE Continue(r, [r EXCEPT !.pc = "no_positions"])
    /\ UNCHANGED <<portfolio, orders, positions, today, paper_mode, retries, alerts>>

\* delete_portfolio counts the pending orders.
DeleteCountOrders(r) ==
    /\ r.op = "delete_portfolio" /\ r.pc = "no_positions"
    /\ IF PendingOrders # {} THEN Return(r, "PendingOrders")
       ELSE Continue(r, [r EXCEPT !.pc = "no_orders"])
    /\ UNCHANGED <<portfolio, orders, positions, today, paper_mode, retries, alerts>>

\* delete_portfolio deletes and commits: the portfolio row goes, and with it
\* every order, position and risk alert row of the portfolio (cascade="all,
\* delete-orphan" on the relationships, ON DELETE CASCADE on the keys).
DeleteCommit(r) ==
    /\ r.op = "delete_portfolio" /\ r.pc = "no_orders"
    /\ IF portfolio.deleted THEN RowsGone(r) /\ UNCHANGED alerts
       ELSE /\ portfolio' = [portfolio EXCEPT !.deleted = TRUE]
            /\ orders' = << >>
            /\ positions' = << >>
            /\ alerts' = << >>
            /\ Return(r, "ok")
    /\ UNCHANGED <<today, paper_mode, retries>>

\* ---- the risk router: metrics, alerts acknowledged and resolved

\* A risk_alerts row as the column defaults make it.
NewAlert(type, severity) ==
    [ alert_type |-> type, severity |-> severity, is_active |-> TRUE,
      acknowledged_at |-> 0, resolved_at |-> 0 ]

\* datetime.utcnow() as a column value: the day, 0 being NULL.
Now == today + 1

\* quantity * price is a whole number of 1/ValueDen cents.
ValueDen == QtyPerAsset \div CentsPerEur

\* An open position at its mark price, in 1/ValueDen cents.
PositionValue(p) ==
    p.quantity * (IF p.current_price # 0 THEN p.current_price
                  ELSE p.avg_buy_price)

RECURSIVE SumValue(_)
SumValue(S) ==
    IF S = {} THEN 0
    ELSE LET i == CHOOSE j \in S : TRUE
         IN  PositionValue(positions[i]) + SumValue(S \ {i})

\* calculate_risk_metrics: the metrics that check_risk_limits looks at.
\* concentration_risk is largest / total * 100, kept as the two numbers;
\* drawdown and volatility are the constants the code puts there (0.0 and
\* 0.15 per cent).
calculate_risk_metrics ==
    LET values == {PositionValue(positions[i]) : i \in OpenPositions}
        total == portfolio.current_balance * ValueDen + SumValue(OpenPositions)
    IN  [ largest |-> IF values = {} THEN 0
                      ELSE CHOOSE v \in values : \A w \in values : w <= v,
          total |-> total,
          current_drawdown |-> 0,
          volatility_30d |-> 0 ]

\* concentration_risk > pct.
ConcentrationAbove(m, pct) ==
    IF m.total > 0 THEN m.largest * 100 > pct * m.total ELSE 0 > pct

\* check_risk_limits: the alerts it returns, as (type, severity) pairs.
check_risk_limits(m) ==
    ( IF ConcentrationAbove(m, 25)
      THEN { [type |-> "concentration",
              severity |-> IF ConcentrationAbove(m, 40) THEN "high"
                           ELSE "medium"] }
      ELSE {} )
    \cup ( IF m.current_drawdown > 10
           THEN { [type |-> "drawdown",
                   severity |-> IF m.current_drawdown > 20 THEN "critical"
                                ELSE "high"] }
           ELSE {} )
    \cup ( IF m.volatility_30d > 30
           THEN { [type |-> "volatility", severity |-> "medium"] }
           ELSE {} )

\* get_risk_metrics and get_risk_assessment: the portfolio is looked up, the
\* metrics are computed and the active alerts read; nothing is written
\* (no handler calls check_risk_limits, no code makes a RiskAlert row).
RiskAssessment(owned) ==
    /\ Free
    /\ IF ~get_user_portfolio(owned) THEN Reject("NotFound")
       ELSE Reject("assessed")
    /\ UNCHANGED <<portfolio, orders, positions, today, paper_mode, retries,
                   alerts>>

\* acknowledge_alert and resolve_alert read the alert; neither looks at its
\* state.
AlertRead(op, aid, owned) ==
    /\ Free
    /\ LET r == [Handler EXCEPT !.op = op, !.oid = aid]
       IN  IF ~owned \/ aid > Len(alerts) THEN Reject("NotFound")
           ELSE Begin([r EXCEPT !.pc = "read"])
    /\ UNCHANGED <<portfolio, orders, positions, today, paper_mode, retries,
                   alerts>>

\* acknowledge_alert writes acknowledged_at and commits.
AcknowledgeCommit(r) ==
    /\ r.op = "acknowledge_alert" /\ r.pc = "read"
    /\ IF r.oid > Len(alerts) THEN Return(r, "ServerError") /\ UNCHANGED alerts
       ELSE /\ alerts' = [alerts EXCEPT ![r.oid] =
                              [@ EXCEPT !.acknowledged_at = Now]]
            /\ Return(r, "ok")
    /\ UNCHANGED <<portfolio, orders, positions, today, paper_mode, retries>>

\* resolve_alert writes resolved_at and is_active and commits.  The model
\* class declares is_active as String(10), the migration as Boolean: whether
\* the driver takes the Python False for the column depends on the schema
\* and the driver at hand, the UPDATE is stored or it fails (rolled back).
ResolveCommit(r) ==
    /\ r.op = "resolve_alert" /\ r.pc = "read"
    /\ \/ /\ r.oid <= Len(alerts)
          /\ alerts' = [alerts EXCEPT ![r.oid] =
                            [@ EXCEPT !.resolved_at = Now, !.is_active = FALSE]]
          /\ Return(r, "ok")
       \/ /\ Return(r, "ServerError")
          /\ UNCHANGED alerts
    /\ UNCHANGED <<portfolio, orders, positions, today, paper_mode, retries>>

\* ---- the system

QuickTradeSteps ==
    \E r \in BagToSet(req) :
        QtInsert(r) \/ QtRefresh(r) \/ QtSelect(r) \/ QtCommit(r)

QuickTrade ==
    \/ \E side \in {"buy", "sell"}, in \in QuickTradeInputs,
          owned \in BOOLEAN, tradeable \in BOOLEAN :
            Room(MaxOrders) /\ QtStart(side, in, owned, tradeable)
    \/ QuickTradeSteps

CreateOrderSteps ==
    \E r \in BagToSet(req) : CoValidate(r) \/ CoInsert(r)

CreateOrder ==
    \/ \E otype \in OrderTypeInputs, in \in OrderCreateInputs,
          owned \in BOOLEAN, tradeable \in BOOLEAN :
            Room(MaxOrders) /\ CoStart(otype, in, owned, tradeable)
    \/ CreateOrderSteps

CancelOrder ==
    \/ \E oid \in 1..MaxOrders, owned \in BOOLEAN : CancelRead(oid, owned)
    \/ \E r \in BagToSet(req) : CancelCommit(r)

UpdateOrder ==
    \/ \E oid \in 1..MaxOrders, in \in OrderUpdateInputs, owned \in BOOLEAN :
            UpdateRead(oid, in, owned)
    \/ \E r \in BagToSet(req) : UpdateCommit(r)

Next == QuickTrade \/ CreateOrder \/ CancelOrder \/ UpdateOrder

Spec == Init /\ [][Next]_vars

\* ---- trades one after the other

\* The state after construction with PAPER_TRADING_MODE at its default.
PaperInit == Init /\ paper_mode = TRUE

\* No quick_trade is in flight.
NoTradeInFlight == \A r \in BagToSet(req) : r.op # "quick_trade"

\* No handler is in flight.
NoneInFlight == req = EmptyBag

\* quick_trade requests served one at a time, update_order requests at any
\* time (between the insert of a quick_trade's order and its refresh, too).
SeqQuickTrade ==
    \/ \E side \in {"buy", "sell"}, in \in QuickTradeInputs :
            /\ NoTradeInFlight
            /\ Room(MaxFills)
            /\ QtStart(side, in, TRUE, TRUE)
    \/ QuickTradeSteps

SeqNext == SeqQuickTrade \/ UpdateOrder

SpecSeq == PaperInit /\ [][SeqNext]_vars

\* ---- requests one after the other, over more than one day

DailyQuickTrade ==
    \/ \E side \in {"buy", "sell"}, in \in QuickTradeInputs,
          owned \in BOOLEAN, tradeable \in BOOLEAN :
            /\ NoneInFlight
            /\ Room(MaxFills)
            /\ QtStart(side, in, owned, tradeable)
    \/ QuickTradeSteps

DailyCreateOrder ==
    \/ \E otype \in OrderTypeInputs, in \in OrderCreateInputs,
          owned \in BOOLEAN, tradeable \in BOOLEAN :
            /\ NoneInFlight
            /\ Room(MaxFills)
            /\ CoStart(otype, in, owned, tradeable)
    \/ CreateOrderSteps

DailyNext == Tick \/ DailyQuickTrade \/ DailyCreateOrder

SpecDaily == Init /\ [][DailyNext]_vars

\* ---- orders edited while they are executed

EditQuickTrade ==
    \/ \E side \in {"buy", "sell"}, in \in QuickTradeInputs :
            /\ NoTradeInFlight
            /\ Room(MaxOrders)
            /\ QtStart(side, in, TRUE, TRUE)
    \/ QuickTradeSteps

EditUpdateOrder ==
    \/ \E oid \in 1..MaxOrders, in \in OrderUpdateInputs \cup OrderCutInputs :
            UpdateRead(oid, in, TRUE)
    \/ \E r \in BagToSet(req) : UpdateCommit(r)

EditNext == EditQuickTrade \/ EditUpdateOrder

SpecEdit == PaperInit /\ [][EditNext]_vars

\* ---- trades in flight together

\* quick_trade requests only, MaxReq of them in flight at a time.
TradesNext ==
    \/ \E side \in {"buy", "sell"}, in \in QuickTradeInputs :
            Room(MaxFills) /\ QtStart(side, in, TRUE, TRUE)
    \/ QuickTradeSteps

SpecTrades == PaperInit /\ [][TradesNext]_vars

\* ---- an execution applied again

\* update_position_from_order called a second time with the execution result
\* of an order whose fill the ledger has: a retried execution call, in a
\* session of its own and with no other handler in flight.
RetryExecution(oid) ==
    LET o == orders[oid]
        sel == position_select(o.order_type, o.executed_quantity)
        w == update_position_from_order(o.order_type, o.executed_quantity,
                 o.executed_price, o.fee_amount, sel.pid, sel.pqty, sel.pavg,
                 sel.prpnl, portfolio.current_balance, portfolio.total_profit_loss)
    IN  /\ NoneInFlight
        /\ retries < MaxRetries
        /\ oid <= Len(orders)
        /\ o.applied > 0
        /\ retries' = retries + 1
        /\ \/ /\ sel.err # "none"
              /\ last' = sel.err
              /\ UNCHANGED <<orders, positions, portfolio>>
           \/ /\ sel.err = "none"
              /\ orders' = [orders EXCEPT ![oid] = [@ EXCEPT !.applied = @ + 1]]
              /\ positions' = w.positions
              /\ portfolio' = w.portfolio
              /\ last' = "ok"
           \/ /\ sel.err = "none"
              /\ ~PositionRowOk(w.positions[w.touched])
              /\ last' = "ServerError"
              /\ UNCHANGED <<orders, positions, portfolio>>
        /\ UNCHANGED <<req, today, paper_mode, alerts>>

RetryNext == DailyQuickTrade \/ \E oid \in 1..MaxFills : RetryExecution(oid)

SpecRetry == PaperInit /\ [][RetryNext]_vars

\* ---- the portfolio read, renamed and deleted while orders are made

GetPortfolio == \E owned \in BOOLEAN : ReadPortfolio(owned)

UpdatePortfolio ==
    \/ \E name \in PortfolioUpdateInputs, owned \in BOOLEAN, taken \in BOOLEAN :
            UpdatePortfolioStart(name, owned, taken)
    \/ \E r \in BagToSet(req) : UpdatePortfolioCommit(r) \/ UpdatePortfolioRefresh(r)

DeletePortfolio ==
    \/ \E owned \in BOOLEAN : DeleteStart(owned)
    \/ \E r \in BagToSet(req) :
            DeleteCountPositions(r) \/ DeleteCountOrders(r) \/ DeleteCommit(r)

PortfolioNext ==
    \/ GetPortfolio \/ UpdatePortfolio \/ DeletePortfolio
    \/ QuickTrade \/ CreateOrder

SpecPortfolio == PaperInit /\ [][PortfolioNext]_vars

\* ---- risk alerts handled while trades are made

\* The risk_alerts table holds at most MaxAlerts rows when the run starts:
\* rows as another writer of the table left them, active and untouched.
AlertTables ==
    { << >>, <<NewAlert("concentration", "high")>> }

RiskInit == StartLedger /\ paper_mode = TRUE /\ alerts \in AlertTables

GetRiskAssessment == \E owned \in BOOLEAN : RiskAssessment(owned)

AcknowledgeAlert ==
    \/ \E aid \in 1..MaxAlerts, owned \in BOOLEAN :
            AlertRead("acknowledge_alert", aid, owned)
    \/ \E r \in BagToSet(req) : AcknowledgeCommit(r)

ResolveAlert ==
    \/ \E aid \in 1..MaxAlerts, owned \in BOOLEAN :
            AlertRead("resolve_alert", aid, owned)
    \/ \E r \in BagToSet(req) : ResolveCommit(r)

RiskNext ==
    \/ Tick \/ GetRiskAssessment \/ AcknowledgeAlert \/ ResolveAlert
    \/ SeqQuickTrade

SpecRisk == RiskInit /\ [][RiskNext]_vars

\* ---- orders created and their background tasks run

BackgroundTasks == \E oid \in 1..MaxOrders : execute_order_async(oid)

LiveNext == CreateOrder \/ BackgroundTasks

\* Every handler in flight goes on and every scheduled task is run.
SpecLive ==
    /\ PaperInit
    /\ [][LiveNext]_vars
    /\ WF_vars(CreateOrderSteps)
    /\ WF_vars(BackgroundTasks)

\* ---- properties

\* The handler that stands at r takes a step.
Stepped(r) == CopiesIn(r, req') < CopiesIn(r, req)

\* A handler comes to stand at r in this step.
Begun(r) == CopiesIn(r, req') > CopiesIn(r, req)

\* A handler returns.
Returned == BagCardinality(req') < BagCardinality(req)

Terminal == {"executed", "cancelled", "failed"}

\* The cost of the buy fill of handler r, in 1/MoneyDen cents.
FillCost(r) == Notional(r.eq, r.ep) + r.eq * r.ep * FeeRateNum

\* C1: in every committed state the balance of the portfolio is zero or more.
C1_BalanceNonNegative == portfolio.current_balance >= 0

\* C2: a buy that its handler could pay from the balance it read, committed
\* when the balance of the portfolio no longer pays for it, fails with
\* InsufficientBalance and leaves the portfolio and the positions as they are.
C2_ConcurrentBuysWithinBalance ==
    [][\A r \in At("quick_trade", {"selected"}) :
          ( /\ Stepped(r)
            /\ r.side = "buy"
            /\ FillCost(r) <= r.bal * MoneyDen
            /\ FillCost(r) > portfolio.current_balance * MoneyDen )
          => ( /\ last' = "InsufficientBalance"
               /\ portfolio' = portfolio
               /\ positions' = positions )]_vars

\* C3: the fill of an order applied a second time leaves the portfolio and
\* the positions as the first application left them.
C3_FillAppliedOnce ==
    [][retries' # retries => (portfolio' = portfolio /\ positions' = positions)]_vars

\* C4: an order whose status is executed, cancelled or failed keeps that
\* status in every step.
C4_TerminalStatusKept ==
    [][\A i \in 1..Len(orders) :
          orders[i].status \in Terminal => orders'[i].status = orders[i].status]_vars

\* The handlers of update_order and cancel_order that passed their check.
Editors == At("cancel_order", {"read"}) \cup At("update_order", {"read"})

\* Order i is edited or cancelled in this step.
Edited(i) ==
    \/ orders'[i].price # orders[i].price
    \/ orders'[i].stop_price # orders[i].stop_price
    \/ orders'[i].quantity # orders[i].quantity
    \/ orders'[i].cancelled_at # orders[i].cancelled_at
    \/ orders'[i].status = "cancelled" /\ orders[i].status # "cancelled"

Fills(p, side) ==
    {i \in 1..Len(orders) : /\ orders[i].applied > 0
                            /\ orders[i].position = p
                            /\ orders[i].order_type = side}

RECURSIVE SumQty(_)
SumQty(S) ==
    IF S = {} THEN 0
    ELSE LET i == CHOOSE x \in S : TRUE
         IN  orders[i].executed_quantity + SumQty(S \ {i})

RECURSIVE SumCost(_)
SumCost(S) ==
    IF S = {} THEN 0
    ELSE LET i == CHOOSE x \in S : TRUE
         IN  orders[i].executed_quantity * orders[i].executed_price
                 + SumCost(S \ {i})

\* The positions that only buys were applied to.
BoughtOnly == {p \in 1..Len(positions) : Fills(p, "sell") = {}}

PositionShort(eq) ==
    \/ OpenPositions = {}
    \/ /\ Cardinality(OpenPositions) = 1
       /\ \A i \in OpenPositions : positions[i].quantity < eq

C8_FailedExecutionMarksOrder ==
    [][\A r \in At("quick_trade", {"inserted", "executed", "selected"}) :
          (Stepped(r) /\ Returned /\ last' # "ok")
          => orders'[r.oid].status = "failed"]_vars

\* C9: no day has more orders than the daily trade limit.
C9_DailyLimitKept ==
    \A d \in 0..MaxDay :
        Cardinality({i \in 1..Len(orders) : orders[i].created_day = d})
            <= MaxDailyTrades

\* C10: every order row had, when it was created, a notional value of the
\* minimum trade amount or more.
C10_OrdersAboveMinimum ==
    \A i \in 1..Len(orders) :
        orders[i].order_value >= MinTradeAmount * CentsPerEur * MoneyDen

\* C11: create_order never answers a sell order with InsufficientBalance,
\* and answers with it only an order whose value is more than the balance.
C11_BalanceCheckedForBuysOnly ==
    [][\A r \in At("create_order", {"validated"}) :
          (Stepped(r) /\ Returned /\ last' = "InsufficientBalance")
          => ( /\ r.side # "sell"
               /\ OrderValue(r.qty, r.price) > r.bal * MoneyDen )]_vars

\* The rows of the database.
Rows == <<orders, positions, portfolio>>

\* C12: a create_order request that is answered with an error, by its first
\* step or by validate_order_limits, leaves the orders, the positions and the
\* portfolio as they are; so no order row has a quantity of 0 or less, and
\* no limit, stop_loss or take_profit order row is without a price.
C12_RejectedPersistsNothing ==
    [][ /\ req' = req => Rows' = Rows
        /\ \A r \in At("create_order", {"validated"}) :
              (Stepped(r) /\ Returned /\ last' # "ok") => Rows' = Rows
        /\ \A i \in 1..Len(orders') :
              /\ orders'[i].quantity > 0
              /\ orders'[i].order_type \in {"limit", "stop_loss", "take_profit"}
                 => orders'[i].price # 0 ]_vars

\* C12, its case: create_order has refused a request because the day's limit
\* was reached.
C12_Witness ==
    /\ last = "DailyLimitExceeded"
    /\ DailyTrades >= MaxDailyTrades

\* C13: the step in which create_order succeeds adds one order row, pending,
\* with executed_quantity 0 and the quantity and price of the request, and
\* leaves the other order rows, the positions and the portfolio as they are;
\* the positions and the portfolio change only in a step that applies a fill.
C13_CreateOrderAddsOnePendingRow ==
    [][ /\ \A r \in At("create_order", {"counted"}) :
              Stepped(r)
              => ( /\ last' = "ok"
                   /\ Len(orders') = Len(orders) + 1
                   /\ SubSeq(orders', 1, Len(orders)) = orders
                   /\ orders'[Len(orders')].status = "pending"
                   /\ orders'[Len(orders')].executed_quantity = 0
                   /\ orders'[Len(orders')].order_type = r.side
                   /\ orders'[Len(orders')].quantity = r.qty
                   /\ orders'[Len(orders')].price = r.price
                   /\ positions' = positions
                   /\ portfolio' = portfolio )
        /\ (positions' # positions \/ portfolio' # portfolio)
           => \E i \in 1..Len(orders) : orders'[i].applied > orders[i].applied ]_vars

\* C13, its case: create_order has just added a limit order (no other handler
\* makes one), and it is pending.
C13_Witness ==
    /\ last = "ok"
    /\ Len(orders) > 0
    /\ orders[Len(orders)].order_type = "limit"
    /\ orders[Len(orders)].status = "pending"

\* C14: the executed quantity of every order is between 0 and the order's
\* quantity.
C14_ExecutedWithinQuantity ==
    \A i \in 1..Len(orders) :
        /\ 0 <= orders[i].executed_quantity
        /\ orders[i].executed_quantity <= orders[i].quantity

\* C15: the portfolio has at most one open position of the asset.
C15_OneOpenPosition == Cardinality(OpenPositions) <= 1

\* C16: an open position has a quantity and an average price above 0; a
\* position is closed exactly when closed_at is set, and then its quantity
\* is 0.
C16_PositionStatusMatchesQuantity ==
    \A p \in 1..Len(positions) :
        /\ positions[p].status = "open"
           => positions[p].quantity > 0 /\ positions[p].avg_buy_price > 0
        /\ positions[p].status = "closed" <=> positions[p].closed_at
        /\ positions[p].status = "closed" => positions[p].quantity = 0

\* The realized profit of the sells S, in 1/MoneyDen cents.
RECURSIVE SumPnl(_)
SumPnl(S) ==
    IF S = {} THEN 0
    ELSE LET i == CHOOSE x \in S : TRUE
             o == orders[i]
         IN  Notional(o.executed_quantity, o.executed_price)
                 - Notional(o.executed_quantity, o.basis) - o.fee_amount
                 + SumPnl(S \ {i})

\* C17: the realized profit of a position is the sum, over the sells
\* applied to it, of q * (p - average price at the sell) - fee (as the column
\* stores that sum).
C17_ExactRealizedPnl ==
    \A p \in 1..Len(positions) :
        positions[p].realized_pnl = RoundMoney(SumPnl(Fills(p, "sell")))

\* The orders whose fill was applied to the ledger.
Applied == {i \in 1..Len(orders) : orders[i].applied > 0}

\* What the fills of the orders S add to the balance, in 1/MoneyDen cents.
RECURSIVE SumFlow(_)
SumFlow(S) ==
    IF S = {} THEN 0
    ELSE LET i == CHOOSE x \in S : TRUE
             o == orders[i]
             n == Notional(o.executed_quantity, o.executed_price)
         IN  (IF o.order_type = "buy" THEN -(n + o.fee_amount)
              ELSE n - o.fee_amount)
                 + SumFlow(S \ {i})

\* C18: the balance is the initial balance less the cost of the buys applied
\* plus the proceeds of the sells applied (to within half a cent for every
\* fill, for the rounding of the column), the fee being 0.15% of the fill.
C18_BalanceIsSumOfFills ==
    /\ \A i \in Applied :
          orders[i].fee_amount * FeeRateDen
              = Notional(orders[i].executed_quantity, orders[i].executed_price)
                    * FeeRateNum
    /\ 2 * Abs(portfolio.current_balance * MoneyDen
                   - (InitialBalance * MoneyDen + SumFlow(Applied)))
           <= Cardinality(Applied) * MoneyDen

\* invested_value as calculate_portfolio_summary computes it: the sum of
\* quantity * avg_buy_price over the open positions 1..n, in 1/MoneyDen cents.
RECURSIVE InvestedValue(_)
InvestedValue(n) ==
    IF n = 0 THEN 0
    ELSE InvestedValue(n - 1)
         + ( IF positions[n].status = "open"
             THEN Notional(positions[n].quantity, positions[n].avg_buy_price)
             ELSE 0 )

\* C19: the stored portfolio.total_invested is the cost basis of the open
\* positions, the sum of quantity * avg_buy_price over them, which is the
\* invested_value that calculate_portfolio_summary computes at read time.
C19_TotalInvestedIsCostBasis ==
    portfolio.total_invested = RoundMoney(InvestedValue(Len(positions)))

\* unrealized_pnl of a position as the mark price gives it, in cents:
\* quantity * (current_price - avg_buy_price).
MarkPnl(p) ==
    RoundMoney(Notional(p.quantity, p.current_price)
               - Notional(p.quantity, p.avg_buy_price))

\* C20: every open position with a known current_price has
\* unrealized_pnl = quantity * (current_price - avg_buy_price), also right
\* after a buy that changed its quantity and average price.
C20_UnrealizedPnlIsMarkToMarket ==
    \A i \in OpenPositions :
        positions[i].current_price # 0
        => positions[i].unrealized_pnl = MarkPnl(positions[i])

\* C21: delete_portfolio removes the portfolio only when, at the moment of the
\* deletion, it has no open position and no pending order; a delete_portfolio
\* that is rejected leaves the portfolio, the orders and the positions as they
\* are; a deleted portfolio stays deleted (it is not found again).
C21_DeleteOnlyWhenEmpty ==
    [][ /\ (~portfolio.deleted /\ portfolio'.deleted)
              => (OpenPositions = {} /\ PendingOrders = {})
        /\ \A r \in At("delete_portfolio", {"found", "no_positions"}) :
              (Stepped(r) /\ Returned)
              => (portfolio' = portfolio /\ Rows' = Rows)
        /\ portfolio.deleted => portfolio'.deleted ]_vars

\* C22: no operation removes an order row: the order ids only grow, every
\* order once stored is still there after any step, portfolio deletion
\* included.
C22_OrdersNeverDeleted == [][Len(orders') >= Len(orders)]_vars

\* The alerts of a type that are active and not resolved.
Unresolved(table, type) ==
    {i \in 1..Len(table) : /\ table[i].alert_type = type
                            /\ table[i].is_active
                            /\ table[i].resolved_at = 0}

\* C23: when the risk metrics are computed and check_risk_limits finds a
\* metric above its threshold while no unresolved active alert of that type
\* exists, a new RiskAlert row of that type and severity is added and the
\* rows there are left as they are; there is never more than one unresolved
\* active alert of a type.
C23_AlertCreatedOnCrossing ==
    [][ /\ (last' = "assessed" /\ req' = req)
           => \A a \in check_risk_limits(calculate_risk_metrics) :
                 Unresolved(alerts, a.type) = {}
                 => /\ Len(alerts') = Len(alerts) + 1
                    /\ SubSeq(alerts', 1, Len(alerts)) = alerts
                    /\ alerts'[Len(alerts')] = NewAlert(a.type, a.severity)
        /\ \A type \in {"concentration", "drawdown", "volatility"} :
              Cardinality(Unresolved(alerts', type)) <= 1 ]_vars

NotFoundNoChange == last' = "NotFound" /\ req' = req /\ Rows' = Rows

\* C25: a request on the portfolio by a user who does not own it (get, list
\* positions, update, delete, create order, quick trade) is answered with
\* not-found and leaves the portfolio, its positions and its orders as they
\* are.
C25_NotOwnedIsNotFound ==
    [][ /\ ReadPortfolio(FALSE) => NotFoundNoChange
        /\ \A name \in PortfolioUpdateInputs, taken \in BOOLEAN :
              UpdatePortfolioStart(name, FALSE, taken) => NotFoundNoChange
        /\ DeleteStart(FALSE) => NotFoundNoChange
        /\ \A otype \in OrderTypeInputs, in \in OrderCreateInputs,
              tradeable \in BOOLEAN :
              (in.quantity > 0 /\ CoStart(otype, in, FALSE, tradeable))
              => NotFoundNoChange
        /\ \A side \in {"buy", "sell"}, in \in QuickTradeInputs,
              tradeable \in BOOLEAN :
              QtStart(side, in, FALSE, tradeable) => NotFoundNoChange ]_vars

\* A request by a user who does not own the portfolio has been answered
\* while the portfolio has an executed order and an open position.
C25_Witness ==
    /\ last = "NotFound"
    /\ ~portfolio.deleted
    /\ OpenPositions # {}
    /\ \E i \in 1..Len(orders) : orders[i].status = "executed"

\* C26: an order that create_order accepted with a background execution
\* (order_type buy, sell or market) leaves status pending with no further
\* request: it comes to be executed, partial or failed once its task has run.
C26_AcceptedOrderExecutes ==
    \A i \in 1..MaxOrders :
        (i <= Len(orders) /\ orders[i].task = "scheduled")
        ~> (i <= Len(orders)
            /\ orders[i].status \in {"executed", "partial", "failed"})

\* C27: a step of cancel_order changes the status and cancelled_at of its
\* order and nothing else, and no order whose fill is in the ledger is
\* cancelled or has cancelled_at set, under every interleaving of cancel_order
\* with the steps of quick_trade.
C27_AppliedNeverCancelled ==
    [][ /\ \A r \in At("cancel_order", {"read"}) :
              Stepped(r)
              => /\ portfolio' = portfolio
                 /\ positions' = positions
                 /\ Len(orders') = Len(orders)
                 /\ \A i \in 1..Len(orders) :
                       orders'[i] = [orders[i] EXCEPT
                                        !.status = orders'[i].status,
                                        !.cancelled_at = orders'[i].cancelled_at]
                 /\ \A i \in 1..Len(orders) :
                       i # r.oid => orders'[i] = orders[i]
        /\ \A i \in 1..Len(orders') :
              orders'[i].applied > 0
              => (orders'[i].status # "cancelled" /\ ~orders'[i].cancelled_at)
      ]_vars

\* The ledger as far as a fill changes it: the balance and the open position
\* (quantity 0: none).
StartOfLedger == [bal |-> InitialBalance, qty |-> 0, avg |-> 0, rpnl |-> 0]

Ledger ==
    LET p == positions[CHOOSE i \in OpenPositions : TRUE]
    IN  IF OpenPositions = {}
        THEN [StartOfLedger EXCEPT !.bal = portfolio.current_balance]
        ELSE [bal |-> portfolio.current_balance, qty |-> p.quantity,
              avg |-> p.avg_buy_price, rpnl |-> p.realized_pnl]

\* update_position_from_order for the fill of order o, run alone on the
\* ledger l; no ledger if it refuses the fill.
SerialFill(l, o) ==
    LET eq == o.executed_quantity
        ep == o.executed_price
        fee == o.fee_amount
    IN  IF o.order_type = "buy"
        THEN { [bal |-> RoundMoney(l.bal * MoneyDen - (Notional(eq, ep) + fee)),
                qty |-> l.qty + eq,
                avg |-> IF l.qty = 0 THEN ep ELSE BuyAvg(l.qty, l.avg, eq, ep),
                rpnl |-> l.rpnl] }
        ELSE IF InsufficientPosition(IF l.qty = 0 THEN 0 ELSE 1, l.qty, eq)
             THEN {}
        ELSE LET bal == RoundMoney(l.bal * MoneyDen + Notional(eq, ep) - fee)
                 rpnl == RoundMoney(l.rpnl * MoneyDen
                                    + RealizedPnl(eq, ep, fee, l.avg))
             IN  IF l.qty = eq THEN { [StartOfLedger EXCEPT !.bal = bal] }
                 ELSE { [bal |-> bal, qty |-> l.qty - eq, avg |-> l.avg,
                         rpnl |-> rpnl] }

\* The ledgers that the fills of the orders S, applied one after the other in
\* some order, lead to.
RECURSIVE SerialLedgers(_)
SerialLedgers(S) ==
    IF S = {} THEN {StartOfLedger}
    ELSE UNION { UNION { SerialFill(l, orders[i]) :
                            l \in SerialLedgers(S \ {i}) } : i \in S }

\* C28: fills on the portfolio are serialized: whatever the interleaving of
\* the handlers that applied them, the balance and the open position
\* (quantity, avg_buy_price, realized_pnl) are what the applied fills give
\* when applied one after the other in some order.
C28_FillsSerialized ==
    /\ Cardinality(OpenPositions) <= 1
    /\ Ledger \in SerialLedgers(Applied)

\* C29: a buy fill applied while no position is open adds a new position
\* row, also after an earlier position was closed; a closed position keeps its
\* quantity, avg_buy_price, realized_pnl, status and closed_at and is never
\* set back to open.
C29_ClosedPositionKept ==
    [][ /\ \A r \in At("quick_trade", {"selected"}) :
              (Stepped(r) /\ last' = "ok" /\ r.side = "buy" /\ OpenPositions = {})
              => /\ Len(positions') = Len(positions) + 1
                 /\ positions'[Len(positions')] = NewPosition(r.eq, r.ep)
        /\ \A i \in 1..Len(positions) :
              positions[i].status = "closed"
              => (i <= Len(positions') /\ positions'[i] = positions[i]) ]_vars

\* The realized_pnl of the positions 1..n, in cents.
RECURSIVE SumRealized(_)
SumRealized(n) ==
    IF n = 0 THEN 0 ELSE SumRealized(n - 1) + positions[n].realized_pnl

\* C30: total_profit_loss of the portfolio is the sum of realized_pnl over
\* its positions, open and closed.
C30_TotalProfitIsSumOfRealized ==
    portfolio.total_profit_loss = SumRealized(Len(positions))

====
